---- MODULE Spec2Model ----
(***************************************************************************)
(* Model of oraker's main.cpp: the two index resolvers that read the asset *)
(* root, the allocation of the run's version directory, and the capture    *)
(* loop (window search, capture, save, preview, key wait), and runs of the *)
(* program that follow one another on the same asset root.                 *)
(*                                                                         *)
(* File names are sequences of one-character strings, so that the regular  *)
(* expressions, std::stoi and std::to_string are modelled by what they do. *)
(***************************************************************************)
EXTENDS Integers, Sequences, FiniteSets

VARIABLES
    root,            \* children of ./assets: records [name, kind, files]
    root0,           \* the asset root as it was when the process started
    ndebug,          \* whether the translation unit is compiled with NDEBUG
    pc,              \* the statement of main() that is next, or that threw
    exitCause,       \* what ended the process abnormally, "none" if nothing
    versionIndex,    \* main.cpp:132 / 134
    imageIndex,      \* main.cpp:133 / 173
    newVersionName,  \* file name part of newVersionPath, main.cpp:134-135
    safariPID,       \* main.cpp:138
    keyCode,         \* main.cpp:139 / 177
    windows,         \* windowInfos of the iteration, main.cpp:142; after an
                     \* iteration without a capture, what it enumerated
    windowID,        \* main.cpp:169-170, 0 outside the body of the for loop
    captures,        \* log of the SaveCGImageToPNG calls made, main.cpp:173
    keyWaits,        \* returns of cv::waitKey since the last capture (since
                     \* the start when there is none), main.cpp:177
    runs             \* the runs of the program that ended before this one

vars == <<root, root0, ndebug, pc, exitCause, versionIndex, imageIndex,
          newVersionName, safariPID, keyCode, windows, windowID, captures,
          keyWaits, runs>>

----------------------------------------------------------------------------
(* Bounds of the model. *)

\* most children the asset root has when the process starts
MaxRootEntries == 2
\* most windows in one enumeration
MaxWindows == 2
\* most captures followed in one run
MaxCaptures == 2
\* values 0..MaxGarbage stand for what an undefined std::ranges::max returns
MaxGarbage == 0
\* most runs of the program followed after the first
MaxRuns == 2

(* Program constants. *)

\* largest value std::stoi returns; beyond it it throws std::out_of_range
INT_MAX == 2147483647
\* the key code that ends the loop
QuitKey == 113
\* initial value of keyCode
NoKey == -1

----------------------------------------------------------------------------
(* Characters and strings. *)

Digits == {"0", "1", "2", "3", "4", "5", "6", "7", "8", "9"}

DigitValue(c) ==
    CASE c = "0" -> 0 [] c = "1" -> 1 [] c = "2" -> 2 [] c = "3" -> 3
      [] c = "4" -> 4 [] c = "5" -> 5 [] c = "6" -> 6 [] c = "7" -> 7
      [] c = "8" -> 8 [] c = "9" -> 9

DigitChar(d) ==
    CASE d = 0 -> "0" [] d = 1 -> "1" [] d = 2 -> "2" [] d = 3 -> "3"
      [] d = 4 -> "4" [] d = 5 -> "5" [] d = 6 -> "6" [] d = 7 -> "7"
      [] d = 8 -> "8" [] d = 9 -> "9"

\* characters the ECMAScript wildcard '.' does not match
LineTerminators == {"\n", "\r"}

versionDirectoryName == <<"v", "e", "r">>

PngSuffix == <<"p", "n", "g">>

\* std::to_string of an unsigned value
RECURSIVE to_string(_)
to_string(n) ==
    IF n < 10 THEN <<DigitChar(n)>>
    ELSE to_string(n \div 10) \o <<DigitChar(n % 10)>>

\* results of std::stoi that stand for its exceptions
OutOfRange == -1
InvalidArgument == -2

\* std::stoi on text that starts without white space or sign: the longest
\* run of leading digits is converted, what follows it is ignored
RECURSIVE StoiFrom(_, _, _)
StoiFrom(s, i, acc) ==
    IF i > Len(s) \/ s[i] \notin Digits THEN acc
    ELSE IF acc > (INT_MAX - DigitValue(s[i])) \div 10 THEN OutOfRange
    ELSE StoiFrom(s, i + 1, acc * 10 + DigitValue(s[i]))

Stoi(s) ==
    IF Len(s) = 0 \/ s[1] \notin Digits THEN InvalidArgument
    ELSE StoiFrom(s, 1, 0)

\* std::string::find_first_of(c): the first position of c (from 1), 0 for npos
FindFirstOf(s, c) ==
    IF \E i \in 1..Len(s) : s[i] = c
    THEN CHOOSE i \in 1..Len(s) : s[i] = c /\ \A j \in 1..(i - 1) : s[j] # c
    ELSE 0

\* SetMax with the comparison reversed: the least element
SetMin(S) == CHOOSE m \in S : \A x \in S : m <= x

\* std::ranges::max
SetMax(S) == CHOOSE m \in S : \A x \in S : x <= m

----------------------------------------------------------------------------
(* findLastVersionIndex, main.cpp:30-47. *)

\* the regular expression "^" + versionDirectoryName + "([0-9]+)$"
isVersion(filename) ==
    /\ Len(filename) > Len(versionDirectoryName)
    /\ SubSeq(filename, 1, Len(versionDirectoryName)) = versionDirectoryName
    /\ \A i \in (Len(versionDirectoryName) + 1)..Len(filename) :
           filename[i] \in Digits

extractVersionIndex(filename) ==
    Stoi(SubSeq(filename, Len(versionDirectoryName) + 1, Len(filename)))

\* the values the pipeline of main.cpp:42-46 hands to std::ranges::max
VersionIndexRange(dir) ==
    { extractVersionIndex(e.name) :
        e \in { x \in dir : x.kind = "dir" /\ isVersion(x.name) } }

\* An outcome is [err |-> "none", val |-> n] or [err |-> cause, val |-> 0].
Value(n) == [err |-> "none", val |-> n]
Failure(cause) == [err |-> cause, val |-> 0]

\* std::ranges::max of an empty range is undefined: the process crashes or
\* goes on with some value
UndefinedMax == {Failure("crash")} \cup { Value(g) : g \in 0..MaxGarbage }

RangesMax(range) ==
    IF range = {} THEN UndefinedMax
    ELSE IF OutOfRange \in range THEN {Failure("out_of_range")}
    ELSE {Value(SetMax(range))}

findLastVersionIndex(dir) == RangesMax(VersionIndexRange(dir))

----------------------------------------------------------------------------
(* findLastVersionDirectory and findLastImageIndex, main.cpp:49-71. *)

findLastVersionDirectory(n) == versionDirectoryName \o to_string(n)

\* the regular expression "^([0-9]+).png$": the dot is a wildcard
isImage(filename) ==
    /\ Len(filename) >= 5
    /\ SubSeq(filename, Len(filename) - 2, Len(filename)) = PngSuffix
    /\ filename[Len(filename) - 3] \notin LineTerminators
    /\ \A i \in 1..(Len(filename) - 4) : filename[i] \in Digits

extractImageIndex(filename) ==
    LET pos == FindFirstOf(filename, ".")
    IN  Stoi(IF pos = 0 THEN filename ELSE SubSeq(filename, 1, pos - 1))

ImageIndexRange(files) ==
    { extractImageIndex(f.name) :
        f \in { x \in files : x.kind = "file" /\ isImage(x.name) } }

\* directory_iterator over the path: filesystem_error unless it is a directory
ScanImages(dir, name) ==
    IF \E e \in dir : e.name = name /\ e.kind = "dir"
    THEN RangesMax(ImageIndexRange((CHOOSE e \in dir : e.name = name).files))
    ELSE {Failure("filesystem_error")}

findLastImageIndex(dir) ==
    UNION { IF v.err # "none" THEN {v}
            ELSE ScanImages(dir, findLastVersionDirectory(v.val)) :
            v \in findLastVersionIndex(dir) }

----------------------------------------------------------------------------
(* findSafariPID, main.cpp:10-28. *)

SAFARI_PROCESS_NAME == "Safari"

MAX_PROCESS_CHUNK == 2048

\* the process tables the run may meet: records [pid, name, infoOk], where
\* infoOk says that proc_pidinfo wrote a whole proc_bsdinfo
ProcessTables ==
    { <<>>,
      <<[pid |-> 1, name |-> "launchd", infoOk |-> TRUE]>>,
      <<[pid |-> 1, name |-> "launchd", infoOk |-> TRUE],
        [pid |-> 501, name |-> "Safari", infoOk |-> TRUE]>>,
      <<[pid |-> 77, name |-> "Safari", infoOk |-> FALSE],
        [pid |-> 501, name |-> "Safari", infoOk |-> TRUE]>>,
      <<[pid |-> 77, name |-> "Safari", infoOk |-> FALSE]>> }

\* the pid of the first process named Safari among the first
\* MAX_PROCESS_CHUNK ones, 0 where the function throws
findSafariPID(procs) ==
    LET count == IF Len(procs) < MAX_PROCESS_CHUNK THEN Len(procs)
                 ELSE MAX_PROCESS_CHUNK
        found == { i \in 1..count :
                     procs[i].infoOk /\ procs[i].name = SAFARI_PROCESS_NAME }
    IN  IF found = {} THEN 0
        ELSE procs[CHOOSE i \in found : \A j \in found : i <= j].pid

----------------------------------------------------------------------------
(* The asset roots a run may start from. *)

Name1png == <<"1", ".", "p", "n", "g">>
Name2png == <<"2", ".", "p", "n", "g">>
Name3png == <<"3", ".", "p", "n", "g">>
Name9png == <<"9", ".", "p", "n", "g">>
Name7xpng == <<"7", "x", "p", "n", "g">>
Name45png == <<"4", "5", "p", "n", "g">>
NameFooPng == <<"f", "o", "o", ".", "p", "n", "g">>
Name1jpg == <<"1", ".", "j", "p", "g">>
NameBigPng == <<"2", "1", "4", "7", "4", "8", "3", "6", "4", "8",
                ".", "p", "n", "g">>

File(name) == [name |-> name, kind |-> "file"]
SubDir(name) == [name |-> name, kind |-> "dir"]

\* contents of a version directory
Contents ==
    { {},
      {File(Name1png), File(Name2png)},
      {File(Name1png), File(Name7xpng)},
      {File(Name3png), File(NameFooPng), File(Name1jpg), SubDir(Name9png)},
      {File(NameBigPng)} }

NameVer1 == <<"v", "e", "r", "1">>
NameVer2 == <<"v", "e", "r", "2">>
NameVer3 == <<"v", "e", "r", "3">>
NameVer02 == <<"v", "e", "r", "0", "2">>
NameVerx == <<"v", "e", "r", "x">>
NameVerBig == <<"v", "e", "r", "2", "1", "4", "7", "4", "8", "3", "6", "4", "8">>

Directory(name, files) == [name |-> name, kind |-> "dir", files |-> files]
RegularFile(name) == [name |-> name, kind |-> "file", files |-> {}]

\* children the asset root may have
RootCandidates ==
    { Directory(NameVer1, c) : c \in Contents }
    \cup { Directory(NameVer2, c) : c \in Contents }
    \cup { RegularFile(NameVer2), RegularFile(NameVer3),
           Directory(NameVer02, {File(Name9png)}),
           Directory(NameVerx, {File(Name9png)}),
           Directory(NameVerBig, {File(Name1png)}) }

\* the asset roots of at most k children, no two with one name
RECURSIVE RootsUpTo(_)
RootsUpTo(k) ==
    IF k = 0 THEN {{}}
    ELSE LET smaller == RootsUpTo(k - 1)
         IN  smaller \cup
             UNION { { s \cup {c} :
                         c \in { x \in RootCandidates :
                                   \A e \in s : e.name # x.name } } :
                     s \in smaller }

\* the asset roots whole runs are followed from
RunRoots ==
    { {Directory(NameVer1, c)} : c \in Contents }
    \cup { {},
           {Directory(NameVer1, {File(Name1png), File(Name2png)}),
            RegularFile(NameVer2)},
           {Directory(NameVer1, {File(Name3png), File(NameFooPng)}),
            Directory(NameVer2, {File(Name1png), File(Name2png)})},
           {Directory(NameVer02, {File(Name9png)})},
           {Directory(NameVerBig, {File(Name1png)})} }

----------------------------------------------------------------------------
(* Windows and keys of the capture loop, main.cpp:141-188. *)

ExpectedTitle == "Poker Now - Poker with Friends"

\* an entry of CGWindowListCopyWindowInfo: kCGWindowNumber, the owner's pid,
\* whether the dictionary has kCGWindowName, whether CFStringGetCString
\* converts it, and the name
Window(id, pid, hasName, cstrOk, name) ==
    [id |-> id, pid |-> pid, hasName |-> hasName, cstrOk |-> cstrOk,
     name |-> name]

\* the windows that may be on screen; two of them are the target's and bear
\* the expected title
WindowPool ==
    { Window(11, 900, TRUE, TRUE, ExpectedTitle),
      Window(12, 501, FALSE, TRUE, ""),
      Window(13, 501, TRUE, FALSE, "Start Page"),
      Window(14, 501, TRUE, TRUE, "Poker Now"),
      Window(15, 501, TRUE, TRUE, ExpectedTitle),
      Window(16, 501, TRUE, TRUE, ExpectedTitle) }

\* a window is listed once
Snapshots ==
    { ws \in UNION { [1..n -> WindowPool] : n \in 0..MaxWindows } :
        \A i, j \in 1..Len(ws) : ws[i] = ws[j] => i = j }

\* what cv::waitKey may return
Keys == {NoKey, QuitKey, 32}

\* WindowMatches without the comparison of the title
WindowMatchesAnyTitle(w, pid) ==
    /\ w.pid = pid
    /\ w.hasName
    /\ w.cstrOk

\* main.cpp:149-166: the tests a window passes before it is captured
WindowMatches(w, pid) ==
    /\ w.pid = pid
    /\ w.hasName
    /\ w.cstrOk
    /\ w.name = ExpectedTitle

\* FirstMatch with the enumeration walked from its end
LastMatch(ws, pid) ==
    LET hits == { i \in 1..Len(ws) : WindowMatches(ws[i], pid) }
    IN  IF hits = {} THEN 0
        ELSE CHOOSE i \in hits : \A j \in hits : i >= j

\* main.cpp:144-182: the window the for loop stops at, 0 when it runs out
FirstMatch(ws, pid) ==
    LET hits == { i \in 1..Len(ws) : WindowMatches(ws[i], pid) }
    IN  IF hits = {} THEN 0
        ELSE CHOOSE i \in hits : \A j \in hits : i <= j

\* QuitRequested with any key pressed taken for the quit key
QuitRequestedByAnyKey(k) == k # NoKey

\* QuitRequested with the comparison negated
QuitRequestedNegated(k) == k # QuitKey

\* main.cpp:184: the test that ends the do-while loop
QuitRequested(k) == k = QuitKey

\* NextImageIndex without the increment
SameImageIndex(n) == n

\* main.cpp:173: ++imageIndex
NextImageIndex(n) == n + 1

\* main.cpp:173: the file name of the image with index n
ImageFileName(n) == to_string(n) \o <<".">> \o PngSuffix

\* main.cpp:73-96: the file can be created in an existing directory, over
\* anything but a directory of its name
CanWrite(dir, vname, fname) ==
    \E e \in dir :
        /\ e.name = vname
        /\ e.kind = "dir"
        /\ \A f \in e.files : f.name = fname => f.kind = "file"

WriteFile(dir, vname, fname) ==
    { IF e.name = vname
      THEN [e EXCEPT !.files = { f \in @ : f.name # fname } \cup {File(fname)}]
      ELSE e : e \in dir }

\* SaveCGImageToPNG: whether CGImageDestinationFinalize reports success
SaveCGImageToPNG(dir, image, vname, fname, encodeOk) ==
    image # "null" /\ encodeOk /\ CanWrite(dir, vname, fname)

----------------------------------------------------------------------------
(* main, main.cpp:128-191. *)

\* the variables before main.cpp:132, the asset root being one of roots
Start(roots) ==
    /\ root \in roots
    /\ root0 = root
    /\ ndebug \in BOOLEAN
    /\ pc = "ResolveVersion"
    /\ exitCause = "none"
    /\ versionIndex = 0
    /\ imageIndex = 0
    /\ newVersionName = <<>>
    /\ safariPID = 0
    /\ keyCode = NoKey
    /\ windows = <<>>
    /\ windowID = 0
    /\ captures = <<>>
    /\ keyWaits = 0
    /\ runs = <<>>

\* an uncaught exception, a failed assertion or a crash ends the process
\* at the statement it is in
Abort(cause) ==
    /\ exitCause' = cause
    /\ UNCHANGED pc

Running == exitCause = "none"

\* main.cpp:132
ResolveVersion ==
    /\ Running
    /\ pc = "ResolveVersion"
    /\ \E r \in findLastVersionIndex(root) :
          IF r.err # "none"
          THEN /\ Abort(r.err)
               /\ UNCHANGED versionIndex
          ELSE /\ versionIndex' = r.val
               /\ pc' = "ResolveImage"
               /\ UNCHANGED exitCause
    /\ UNCHANGED <<root, root0, ndebug, imageIndex, newVersionName,
                   safariPID, keyCode, windows, windowID, captures,
                   keyWaits, runs>>

\* main.cpp:133
ResolveImage ==
    /\ Running
    /\ pc = "ResolveImage"
    /\ \E r \in findLastImageIndex(root) :
          IF r.err # "none"
          THEN /\ Abort(r.err)
               /\ UNCHANGED imageIndex
          ELSE /\ imageIndex' = r.val
               /\ pc' = "CreateDirectory"
               /\ UNCHANGED exitCause
    /\ UNCHANGED <<root, root0, ndebug, versionIndex, newVersionName,
                   safariPID, keyCode, windows, windowID, captures,
                   keyWaits, runs>>

\* main.cpp:136: std::filesystem::create_directory is the argument of
\* assert, so with NDEBUG it is not called. Otherwise an existing directory
\* makes it return false (the assertion fails), an existing file or an error
\* of the operating system makes it throw.
CreateOutcomes(dir, name, compiledOut) ==
    IF compiledOut THEN {"skipped"}
    ELSE IF \E e \in dir : e.name = name /\ e.kind = "dir" THEN {"assert"}
    ELSE IF \E e \in dir : e.name = name THEN {"filesystem_error"}
    ELSE {"created", "filesystem_error"}

\* main.cpp:134-136
CreateDirectory ==
    /\ Running
    /\ pc = "CreateDirectory"
    /\ versionIndex' = versionIndex + 1
    /\ newVersionName' = versionDirectoryName \o to_string(versionIndex + 1)
    /\ \E outcome \in CreateOutcomes(root, newVersionName', ndebug) :
          IF outcome \in {"assert", "filesystem_error"}
          THEN /\ Abort(outcome)
               /\ UNCHANGED root
          ELSE /\ root' = IF outcome = "created"
                          THEN root \cup {Directory(newVersionName', {})}
                          ELSE root
               /\ pc' = "FindSafari"
               /\ UNCHANGED exitCause
    /\ UNCHANGED <<root0, ndebug, imageIndex, safariPID, keyCode, windows,
                   windowID, captures, keyWaits, runs>>

\* main.cpp:138-139
FindSafari ==
    /\ Running
    /\ pc = "FindSafari"
    /\ \E procs \in ProcessTables :
          IF findSafariPID(procs) = 0
          THEN /\ Abort("runtime_error")
               /\ UNCHANGED <<safariPID, keyCode>>
          ELSE /\ safariPID' = findSafariPID(procs)
               /\ keyCode' = NoKey
               /\ pc' = "Searching"
               /\ UNCHANGED exitCause
    /\ UNCHANGED <<root, root0, ndebug, versionIndex, imageIndex,
                   newVersionName, windows, windowID, captures, keyWaits,
                   runs>>

\* main.cpp:142-186, an iteration whose for loop runs out of windows
SearchNoMatch ==
    /\ Running
    /\ pc = "Searching"
    /\ \E ws \in Snapshots :
          /\ FirstMatch(ws, safariPID) = 0
          /\ windows' = ws
    /\ pc' = IF QuitRequested(keyCode) THEN "Terminated" ELSE "Searching"
    /\ UNCHANGED <<root, root0, ndebug, exitCause, versionIndex, imageIndex,
                   newVersionName, safariPID, keyCode, windowID, captures,
                   keyWaits, runs>>

\* main.cpp:142-170, an iteration that finds the window: the for loop stops
\* at it. At most MaxCaptures captures of a run are followed.
SearchMatch ==
    /\ Running
    /\ pc = "Searching"
    /\ Len(captures) < MaxCaptures
    /\ \E ws \in Snapshots :
          /\ FirstMatch(ws, safariPID) # 0
          /\ windows' = ws
          /\ windowID' = ws[FirstMatch(ws, safariPID)].id
    /\ pc' = "Capturing"
    /\ UNCHANGED <<root, root0, ndebug, exitCause, versionIndex, imageIndex,
                   newVersionName, safariPID, keyCode, captures, keyWaits,
                   runs>>

\* what CGWindowListCreateImage returns, whether the encoder succeeds and
\* whether cv::imshow does
FrameOutcomes ==
    { <<"null", FALSE, FALSE>>,
      <<"image", TRUE, TRUE>>, <<"image", FALSE, TRUE>>,
      <<"image", TRUE, FALSE>>, <<"image", FALSE, FALSE>> }

\* ShowFrame with a key wait that is over at once: the loop goes on to its
\* test with the key it had
ShowFrameWithoutWait(image, previewOk) ==
    IF image = "null" \/ ~previewOk
    THEN /\ Abort(IF image = "null" THEN "crash" ELSE "cv_exception")
         /\ windows' = <<>>
         /\ windowID' = 0
    ELSE /\ pc' = IF QuitRequested(keyCode) THEN "Terminated" ELSE "Searching"
         /\ windows' = <<>>
         /\ windowID' = 0
         /\ UNCHANGED exitCause

\* main.cpp:175-177: CGImageToCVMat, cv::imshow and the call of cv::waitKey.
\* A null image makes CGImageToCVMat hand NULL to CFRelease, and cv::imshow
\* throws when there is nothing to show the frame on; either ends the
\* process, and windowInfos with it. Otherwise the process blocks in
\* cv::waitKey.
ShowFrame(image, previewOk) ==
    IF image = "null" \/ ~previewOk
    THEN /\ Abort(IF image = "null" THEN "crash" ELSE "cv_exception")
         /\ windows' = <<>>
         /\ windowID' = 0
    ELSE /\ pc' = "AwaitingInput"
         /\ UNCHANGED <<exitCause, windows, windowID>>

\* main.cpp:171-177: capture, save and preview
CaptureFrame ==
    /\ Running
    /\ pc = "Capturing"
    /\ \E frame \in FrameOutcomes :
          LET image == frame[1]
              encodeOk == frame[2]
              previewOk == frame[3]
              fname == ImageFileName(NextImageIndex(imageIndex))
              saved == SaveCGImageToPNG(root, image, newVersionName, fname,
                                        encodeOk)
          IN  /\ imageIndex' = NextImageIndex(imageIndex)
              /\ root' = IF saved THEN WriteFile(root, newVersionName, fname)
                         ELSE root
              /\ captures' = Append(captures,
                                    [dir |-> newVersionName,
                                     file |-> fname,
                                     saved |-> saved])
              /\ ShowFrame(image, previewOk)
    /\ keyWaits' = 0
    /\ UNCHANGED <<root0, ndebug, versionIndex, newVersionName, safariPID,
                   keyCode, runs>>

\* main.cpp:177-186: cv::waitKey returns, the for loop is left, the
\* do-while loop tests the key and the iteration's windowInfos is gone
WaitKey ==
    /\ Running
    /\ pc = "AwaitingInput"
    /\ \E k \in Keys :
          /\ keyCode' = k
          /\ pc' = IF QuitRequested(k) THEN "Terminated" ELSE "Searching"
    /\ windows' = <<>>
    /\ windowID' = 0
    /\ keyWaits' = keyWaits + 1
    /\ UNCHANGED <<root, root0, ndebug, exitCause, versionIndex, imageIndex,
                   newVersionName, safariPID, captures, runs>>

Next ==
    \/ ResolveVersion
    \/ ResolveImage
    \/ CreateDirectory
    \/ FindSafari
    \/ SearchNoMatch
    \/ SearchMatch
    \/ CaptureFrame
    \/ WaitKey

Init == Start(RunRoots)

\* whole runs, from the asset roots of RunRoots
Spec == Init /\ [][Next]_vars

StartupInit == Start(RootsUpTo(MaxRootEntries))

StartupNext ==
    \/ ResolveVersion
    \/ ResolveImage
    \/ CreateDirectory
    \/ FindSafari

\* the statements before the loop, main.cpp:132-139, from every asset root
\* of at most MaxRootEntries children
StartupSpec == StartupInit /\ [][StartupNext]_vars

\* the asset roots sequences of runs are followed from: one version
\* directory, with images in it
RunsRoots ==
    { {Directory(NameVer1, {File(Name1png), File(Name2png)})},
      {Directory(NameVer1, {File(Name1png), File(Name7xpng)})} }

\* how the process ended: main returned 0, or what ended it before
Ended == pc = "Terminated" \/ ~Running

\* the program is started again, by the same build, on the ./assets that the
\* run before left; nothing else outlives a process (main.cpp:128-139)
Restart ==
    /\ Ended
    /\ Len(runs) < MaxRuns
    /\ runs' = Append(runs, [root0 |-> root0,
                             end |-> IF Running THEN "quit" ELSE exitCause,
                             dir |-> newVersionName,
                             captures |-> captures])
    /\ root0' = root
    /\ pc' = "ResolveVersion"
    /\ exitCause' = "none"
    /\ versionIndex' = 0
    /\ imageIndex' = 0
    /\ newVersionName' = <<>>
    /\ safariPID' = 0
    /\ keyCode' = NoKey
    /\ windows' = <<>>
    /\ windowID' = 0
    /\ captures' = <<>>
    /\ keyWaits' = 0
    /\ UNCHANGED <<root, ndebug>>

RunsInit == Start(RunsRoots)

RunsNext ==
    \/ ResolveVersion
    \/ ResolveImage
    \/ CreateDirectory
    \/ FindSafari
    \/ SearchNoMatch
    \/ SearchMatch
    \/ CaptureFrame
    \/ WaitKey
    \/ Restart

\* one run after another on the same ./assets, from the roots of RunsRoots
RunsSpec == RunsInit /\ [][RunsNext]_vars

----------------------------------------------------------------------------
(* The asset tree as the specification describes it: version directories   *)
(* named prefix + decimal digits, images named decimal digits + ".png".    *)

IsDecimal(s) == Len(s) >= 1 /\ \A i \in 1..Len(s) : s[i] \in Digits

RECURSIVE DecimalValue(_)
DecimalValue(s) ==
    IF Len(s) = 0 THEN 0
    ELSE DecimalValue(SubSeq(s, 1, Len(s) - 1)) * 10 + DigitValue(s[Len(s)])

RECURSIVE Significant(_)
Significant(s) ==
    IF Len(s) > 1 /\ s[1] = "0" THEN Significant(Tail(s)) ELSE s

IntMaxDigits == <<"2", "1", "4", "7", "4", "8", "3", "6", "4", "7">>

\* the decimal numeral s denotes a value of at most INT_MAX
WithinInt(s) ==
    LET t == Significant(s)
    IN  \/ Len(t) < Len(IntMaxDigits)
        \/ /\ Len(t) = Len(IntMaxDigits)
           /\ \A i \in 1..Len(t) :
                  (\A j \in 1..(i - 1) : t[j] = IntMaxDigits[j])
                      => DigitValue(t[i]) <= DigitValue(IntMaxDigits[i])

NamesVersion(s) ==
    /\ Len(s) >= 4
    /\ <<s[1], s[2], s[3]>> = <<"v", "e", "r">>
    /\ IsDecimal(SubSeq(s, 4, Len(s)))

VersionSuffix(s) == SubSeq(s, 4, Len(s))

NamesImage(s) ==
    /\ Len(s) >= 5
    /\ SubSeq(s, Len(s) - 3, Len(s)) = <<".", "p", "n", "g">>
    /\ IsDecimal(SubSeq(s, 1, Len(s) - 4))

ImageStem(s) == SubSeq(s, 1, Len(s) - 4)

Greatest(S) == CHOOSE m \in S : \A x \in S : m >= x

VersionDirectories(r) == { e \in r : e.kind = "dir" /\ NamesVersion(e.name) }

VersionsWithinInt(r) ==
    \A e \in VersionDirectories(r) : WithinInt(VersionSuffix(e.name))

LastVersion(r) ==
    Greatest({ DecimalValue(VersionSuffix(e.name)) : e \in VersionDirectories(r) })

\* the version directories with the highest version index
LatestDirectories(r) ==
    { e \in VersionDirectories(r) :
        DecimalValue(VersionSuffix(e.name)) = LastVersion(r) }

ImageFiles(d) == { f \in d.files : f.kind = "file" /\ NamesImage(f.name) }

ImagesWithinInt(d) == \A f \in ImageFiles(d) : WithinInt(ImageStem(f.name))

LastImage(d) == Greatest({ DecimalValue(ImageStem(f.name)) : f \in ImageFiles(d) })

\* the asset root has one latest version directory, with images in it, and
\* every index fits an int
WellFormed(r) ==
    /\ VersionDirectories(r) # {}
    /\ VersionsWithinInt(r)
    /\ Cardinality(LatestDirectories(r)) = 1
    /\ \A d \in LatestDirectories(r) : ImageFiles(d) # {} /\ ImagesWithinInt(d)

TheLatestDirectory(r) == CHOOSE d \in LatestDirectories(r) : TRUE

LoopEntered == pc \in {"Searching", "Capturing", "AwaitingInput", "Terminated"}

----------------------------------------------------------------------------
(* Claims. *)

\* C1: from an asset root whose latest version directory ver<v> has maximum
\* image index p, the k-th capture of the run, when it is written, is written
\* as (p+k).png inside ver<v+1>.
C1_CounterContinues ==
    WellFormed(root0) =>
        \A k \in { i \in 1..Len(captures) : captures[i].saved } :
            /\ captures[k].dir =
                   <<"v", "e", "r">> \o to_string(LastVersion(root0) + 1)
            /\ captures[k].file =
                   to_string(LastImage(TheLatestDirectory(root0)) + k)
                       \o <<".", "p", "n", "g">>

\* C2: whenever the asset root has a directory named prefix + digits,
\* findLastVersionIndex returns, and what it returns is the maximum of the
\* digit suffixes of those directories.
C2_ReturnsMaxForEveryRoot ==
    VersionDirectories(root0) # {} =>
        /\ ~(pc = "ResolveVersion" /\ ~Running)
        /\ pc = "ResolveImage" /\ VersionsWithinInt(root0)
               => versionIndex = LastVersion(root0)

\* C2 within the range of int: when every such suffix is at most INT_MAX,
\* findLastVersionIndex returns the maximum of the suffixes of the
\* directories named prefix + digits, whatever regular files and other
\* directories the root holds; when a suffix exceeds INT_MAX it throws
\* std::out_of_range.
C2_ReturnsMaxWithinInt ==
    VersionDirectories(root0) # {} =>
        IF VersionsWithinInt(root0)
        THEN /\ findLastVersionIndex(root0) = {Value(LastVersion(root0))}
             /\ ~(pc = "ResolveVersion" /\ ~Running)
             /\ pc = "ResolveImage" => versionIndex = LastVersion(root0)
        ELSE /\ findLastVersionIndex(root0) = {Failure("out_of_range")}
             /\ pc = "ResolveVersion"
             /\ ~Running => exitCause = "out_of_range"

\* C3: findLastImageIndex returns the maximum M such that a regular file
\* M.png is in the latest version directory.
C3_ReturnsMaxImage ==
    (WellFormed(root0) /\ pc = "CreateDirectory")
        => imageIndex = LastImage(TheLatestDirectory(root0))

\* the latest version directory of r with the file name n added or removed
WithFile(r, n) ==
    { IF e \in LatestDirectories(r)
      THEN [e EXCEPT !.files = { f \in @ : f.name # n } \cup {File(n)}]
      ELSE e : e \in r }

WithoutFile(r, n) ==
    { IF e \in LatestDirectories(r)
      THEN [e EXCEPT !.files = { f \in @ : f.name # n }]
      ELSE e : e \in r }

OtherNames ==
    { NameFooPng, Name1jpg, Name7xpng, Name45png,
      <<".", "p", "n", "g">>, <<"1", ".", "p", "n", "g", "x">> }

\* C4: what findLastImageIndex has returned is what it returns with any
\* file whose name is not digits + ".png" added to the latest version
\* directory or removed from it.
C4_OtherNamesIgnored ==
    (WellFormed(root0) /\ pc = "CreateDirectory") =>
        \A n \in { x \in OtherNames : ~NamesImage(x) } :
            /\ Value(imageIndex) \in findLastImageIndex(WithFile(root0, n))
            /\ Value(imageIndex) \in findLastImageIndex(WithoutFile(root0, n))

\* C5 as stated: the name of the directory to create is the name of no
\* child of the asset root.
C5_NameUnused ==
    (Running /\ pc \in {"ResolveImage", "CreateDirectory"}) =>
        \A e \in root :
            e.name # <<"v", "e", "r">> \o to_string(versionIndex + 1)

\* C5 amended: the name of the directory to create is the name of no
\* directory of the asset root (a regular file may bear it, and
\* create_directory then throws); create_directory never finds the
\* directory existing, and when it returns, the directory is new and empty.
C5_NoDirectoryCollision ==
    /\ (Running /\ pc \in {"ResolveImage", "CreateDirectory"}) =>
           \A e \in root :
               e.kind = "dir"
                   => e.name # <<"v", "e", "r">> \o to_string(versionIndex + 1)
    /\ exitCause # "assert"
    /\ (pc = "FindSafari" /\ ~ndebug) =>
           /\ \A e \in root0 : e.name # newVersionName
           /\ [name |-> newVersionName, kind |-> "dir", files |-> {}] \in root

\* the directory has been created beside two version directories
C5_Witness ==
    /\ pc = "FindSafari"
    /\ Cardinality(VersionDirectories(root0)) >= 2
    /\ root # root0
    /\ \E e \in root : e.name = newVersionName /\ e.kind = "dir"

\* the asset root has no version directory, or its latest version directory
\* has no image
NothingToResolve(r) ==
    \/ VersionDirectories(r) = {}
    \/ /\ VersionsWithinInt(r)
       /\ \E d \in LatestDirectories(r) : ImageFiles(d) = {}

\* C6: from an asset root without a version directory, or whose latest
\* version directory has no image, the run never gets past the resolvers:
\* no directory is created, no window searched, nothing captured.
C6_NothingToResolveEndsRun ==
    NothingToResolve(root0) =>
        /\ pc \in {"ResolveVersion", "ResolveImage"}
        /\ root = root0
        /\ captures = <<>>

\* C7: when findSafariPID throws, the asset root is as it was before the
\* run (checked from the asset roots both resolvers accept).
C7_RootUntouchedWithoutSafari ==
    (WellFormed(root0) /\ pc = "FindSafari" /\ exitCause = "runtime_error")
        => root = root0

\* C8: the loop is entered, and image indices are allocated, only after the
\* run has created its version directory (checked from the asset roots both
\* resolvers accept).
C8_LoopNeedsCreatedDirectory ==
    (WellFormed(root0) /\ (LoopEntered \/ captures # <<>>)) =>
        /\ \E e \in root : e.name = newVersionName /\ e.kind = "dir"
        /\ \A e \in root0 : e.name # newVersionName

\* C9: a step out of AwaitingInput ends the run with status 0 when the key
\* is 113 and goes back to Searching otherwise, capturing nothing; nothing
\* happens after Terminated.
C9_KeyDecides ==
    [][ /\ pc = "AwaitingInput" =>
              /\ keyCode' = 113 => (pc' = "Terminated" /\ exitCause' = "none")
              /\ keyCode' # 113 => (pc' = "Searching" /\ exitCause' = "none")
              /\ UNCHANGED <<root, imageIndex, captures>>
        /\ pc = "Terminated" => UNCHANGED <<pc, root, imageIndex, captures>>
      ]_vars

\* the run has ended on key 113 after another key had let it go on
C9_Witness ==
    /\ pc = "Terminated"
    /\ keyCode = 113
    /\ Len(captures) >= 2

\* no window of the snapshot is owned by the target process and bears the
\* expected title
NoTargetWindow(ws) ==
    \A i \in 1..Len(ws) :
        ~(/\ ws[i].pid = safariPID
          /\ ws[i].hasName
          /\ ws[i].name = "Poker Now - Poker with Friends")

\* C10: an iteration that enumerates no window of the target process with
\* the expected title leaves the image counter, the asset root, the captures
\* and the key as they are and returns to Searching.
C10_NoMatchChangesNothing ==
    [][ (pc = "Searching" /\ NoTargetWindow(windows')) =>
            /\ pc' = "Searching"
            /\ exitCause' = "none"
            /\ UNCHANGED <<root, versionIndex, imageIndex, newVersionName,
                           keyCode, captures>>
      ]_vars

\* after a capture and a key other than 113, an iteration has enumerated
\* windows none of which is the target, and the loop is searching again
C10_Witness ==
    /\ pc = "Searching"
    /\ Running
    /\ keyCode = 32
    /\ captures # <<>>
    /\ Len(windows) = 2
    /\ NoTargetWindow(windows)
    /\ \E i \in 1..Len(windows) : windows[i].pid = safariPID
    /\ \E i \in 1..Len(windows) : windows[i].pid # safariPID

\* C11: a capture other than the first of the run is made after exactly one
\* return of cv::waitKey since the capture before it, and the key it returned
\* is not 113; a capture leaves the process blocked in cv::waitKey (unless it
\* ends the process), and nothing but the return of cv::waitKey happens
\* there: windows are enumerated again only in Searching.
C11_OneKeyPerCapture ==
    [][ /\ captures' # captures =>
              /\ Len(captures') = Len(captures) + 1
              /\ captures # <<>> => (keyWaits = 1 /\ keyCode # 113)
              /\ keyWaits' = 0
              /\ exitCause' = "none" => pc' = "AwaitingInput"
        /\ pc = "AwaitingInput" =>
              /\ keyWaits' = keyWaits + 1
              /\ windows' = <<>>
              /\ captures' = captures
        /\ (windows' # windows /\ windows' # <<>>) => pc = "Searching"
      ]_vars

\* a second capture has been made, after a key other than 113
C11_Witness ==
    /\ pc = "AwaitingInput"
    /\ Len(captures) = 2
    /\ keyCode = 32
    /\ keyWaits = 0

\* C12: nothing that fails in a frame ends the run: once the loop is
\* entered the process ends only by main returning, and main returns only
\* on key 113 (checked from the asset roots both resolvers accept).
C12_FrameFailuresNeverHalt ==
    WellFormed(root0) =>
        /\ LoopEntered => exitCause = "none"
        /\ pc = "Terminated" => keyCode = 113

\* the index a capture was given, read from the name of its file
IndexOf(c) == DecimalValue(ImageStem(c.file))

\* C13: the counter is the index of the last capture, written or not; a
\* capture that was not written has left no file of its name in the
\* directory of the run, and the capture after it has the next index.
C13_NoRollback ==
    /\ captures # <<>> => imageIndex = IndexOf(captures[Len(captures)])
    /\ \A i \in 1..Len(captures) :
           /\ NamesImage(captures[i].file)
           /\ ~captures[i].saved =>
                 /\ \A e \in root :
                        (e.name = captures[i].dir /\ e.kind = "dir")
                            => \A f \in e.files : f.name # captures[i].file
                 /\ i < Len(captures) =>
                        captures[i + 1].file =
                            to_string(IndexOf(captures[i]) + 1)
                                \o <<".", "p", "n", "g">>

\* a capture that was not written is followed by one that was, in the
\* directory the run created
C13_Witness ==
    /\ Len(captures) = 2
    /\ ~captures[1].saved
    /\ captures[2].saved
    /\ \E e \in root :
           /\ e.name = newVersionName
           /\ e.kind = "dir"
           /\ \E f \in e.files : f.name = captures[2].file
           /\ \A f \in e.files : f.name # captures[1].file

\* the children of the asset root that the run has added
NewChildren == { e \in root : \A o \in root0 : o.name # e.name }

\* C14: a run that is in the loop has added one child to the asset root, the
\* version directory of the run; what it wrote is in that directory, and the
\* children the root had are as they were.
C14_OneNewDirectory ==
    (WellFormed(root0) /\ LoopEntered) =>
        /\ Cardinality(NewChildren) = 1
        /\ \A e \in NewChildren : e.name = newVersionName /\ e.kind = "dir"
        /\ \A i \in 1..Len(captures) : captures[i].dir = newVersionName
        /\ root0 \subseteq root

\* C14, the part every build keeps: a run adds no child but a directory of
\* the name it computed and leaves the children the root had as they were.
C14_ExistingUnchanged ==
    /\ \A e \in NewChildren : e.name = newVersionName /\ e.kind = "dir"
    /\ \A i \in 1..Len(captures) : captures[i].dir = newVersionName
    /\ root0 \subseteq root

\* C15: in a run in which no enumeration ever lists a window of the target
\* process with the expected title, the loop, once entered, stays in
\* Searching: nothing is captured, no index allocated, no file written, no
\* key read, and the process does not end.
C15_SearchingForever ==
    []NoTargetWindow(windows) =>
        [](LoopEntered =>
               /\ pc = "Searching"
               /\ exitCause = "none"
               /\ captures = <<>>
               /\ keyWaits = 0
               /\ keyCode = -1
               /\ \A e \in root : e \in root0 \/ e.files = {})

\* the loop is searching, nothing captured yet, having enumerated a window
\* of the target process with another title and a window of another process
\* with the expected title
C15_Witness ==
    /\ pc = "Searching"
    /\ captures = <<>>
    /\ Len(windows) = 2
    /\ NoTargetWindow(windows)
    /\ \E i \in 1..Len(windows) :
           /\ windows[i].pid = safariPID
           /\ windows[i].hasName
           /\ windows[i].name = "Poker Now"
    /\ \E i \in 1..Len(windows) :
           /\ windows[i].pid # safariPID
           /\ windows[i].name = "Poker Now - Poker with Friends"

\* the window is owned by the target process and bears the expected title
IsTarget(w) ==
    /\ w.pid = safariPID
    /\ w.hasName
    /\ w.name = "Poker Now - Poker with Friends"

\* C16: the window captured is the first of the enumeration that is owned
\* by the target process and bears the expected title; an index is
\* allocated only by a capture, one per capture, and between two captures
\* the windows are enumerated again.
C16_FirstMatchingWindow ==
    /\ []((exitCause = "none" /\ pc \in {"Capturing", "AwaitingInput"}) =>
              \E i \in 1..Len(windows) :
                  /\ IsTarget(windows[i])
                  /\ windows[i].id = windowID
                  /\ \A j \in 1..(i - 1) : ~IsTarget(windows[j]))
    /\ [][ /\ (LoopEntered /\ (imageIndex' # imageIndex
                                    \/ captures' # captures)) =>
                 /\ pc = "Capturing"
                 /\ exitCause' = "none" => pc' # "Capturing"
                 /\ imageIndex' = imageIndex + 1
                 /\ Len(captures') = Len(captures) + 1
           /\ (pc' = "Capturing" /\ pc # "Capturing") =>
                 (pc = "Searching" /\ windows' # <<>>)
         ]_vars

\* the second of two windows of the target with the expected title was
\* left alone, after a capture from an enumeration in which a window of
\* another title came first
C16_Witness ==
    /\ pc = "AwaitingInput"
    /\ Len(captures) = 2
    /\ Len(windows) = 2
    /\ IsTarget(windows[1])
    /\ IsTarget(windows[2])
    /\ windowID = windows[1].id

\* C17: while the resolvers run the asset root is as the run found it; the
\* image index main goes on with was read from a file name of the directory
\* that had the highest version when the run began, and that directory is
\* not the one the run creates.
C17_ResolvedBeforeCreation ==
    /\ pc \in {"ResolveVersion", "ResolveImage"} => root = root0
    /\ (WellFormed(root0) /\ exitCause = "none"
            /\ pc \in {"CreateDirectory", "FindSafari"}) =>
           /\ imageIndex \in
                  { extractImageIndex(f.name) :
                      f \in { x \in TheLatestDirectory(root0).files :
                                x.kind = "file" } }
           /\ TheLatestDirectory(root0).name #
                  <<"v", "e", "r">> \o to_string(LastVersion(root0) + 1)
           /\ pc = "FindSafari" =>
                  /\ newVersionName =
                         <<"v", "e", "r">> \o to_string(LastVersion(root0) + 1)
                  /\ \A e \in root0 :
                         e.kind = "dir" => e.name # newVersionName

\* the directory ver3 has been created after the index 2 was read from ver2,
\* the later of two version directories
C17_Witness ==
    /\ pc = "FindSafari"
    /\ exitCause = "none"
    /\ Cardinality(VersionDirectories(root0)) = 2
    /\ imageIndex = 2
    /\ newVersionName = <<"v", "e", "r", "3">>
    /\ [name |-> newVersionName, kind |-> "dir", files |-> {}] \in root

\* the asset root the first of the runs began with
FirstRoot == IF runs = <<>> THEN root0 ELSE runs[1].root0

\* C18: from an asset root that both resolvers accept, a run that follows a
\* run ended by key 113 or by findSafariPID's exception begins with images
\* in the latest version directory, and its resolvers do not end it.
C18_StartupSucceedsAgain ==
    (/\ runs # <<>>
     /\ WellFormed(FirstRoot)
     /\ \A i \in 1..Len(runs) : runs[i].end \in {"quit", "runtime_error"}) =>
        /\ \A d \in LatestDirectories(root0) : ImageFiles(d) # {}
        /\ ~(pc \in {"ResolveVersion", "ResolveImage"} /\ exitCause # "none")

\* the image files written by the runs so far, as <<directory, file>>
RECURSIVE WrittenBy(_)
WrittenBy(cs) ==
    IF cs = <<>> THEN <<>>
    ELSE (IF Head(cs).saved THEN << <<Head(cs).dir, Head(cs).file>> >>
          ELSE <<>>) \o WrittenBy(Tail(cs))

RECURSIVE WrittenByRuns(_)
WrittenByRuns(rs) ==
    IF rs = <<>> THEN <<>>
    ELSE WrittenBy(Head(rs).captures) \o WrittenByRuns(Tail(rs))

Written == WrittenByRuns(runs) \o WrittenBy(captures)

\* the images of the asset tree, as <<version, index>>
Images ==
    UNION { { <<DecimalValue(VersionSuffix(d.name)),
                DecimalValue(ImageStem(f.name))>> : f \in ImageFiles(d) } :
            d \in VersionDirectories(root) }

\* C19: from an asset root with a single version directory, whatever runs
\* follow one another, no path is written twice, no two images of the tree
\* have one index, and an image in a directory of a higher version has a
\* higher index.
C19_IndicesGlobal ==
    (Cardinality(FirstRoot) = 1 /\ WellFormed(FirstRoot)) =>
        /\ \A i, j \in 1..Len(Written) : Written[i] = Written[j] => i = j
        /\ \A a, b \in Images : a[2] = b[2] => a = b
        /\ \A a, b \in Images : a[1] < b[1] => a[2] < b[2]

====
